---- MODULE Spec2Model ----
(***************************************************************************)
(* Upstox market-data streaming: the adapter (upstox_adapter.py), the      *)
(* streaming client (upstox_websocket.py) and the transport worker that    *)
(* drives the client's callbacks.  Caller threads run the adapter's public *)
(* methods statement by statement; one worker per transport runs the       *)
(* websocket event loop and invokes the client's _on_* callbacks.          *)
(***************************************************************************)
EXTENDS Integers, Sequences, FiniteSets, TLC

VARIABLES
    access_token,   \* adapter.access_token (None or a token)
    user_id,        \* adapter.user_id
    ws_client,      \* adapter.ws_client: 0 (None) or a client id
    running,        \* adapter.running
    subscriptions,  \* adapter.subscriptions: dict key -> True
    ncl,            \* number of UpstoxWebSocket objects constructed so far
    ws,             \* client.ws: 0 (None) or a transport id
    connected,      \* client.connected
    stop_event,     \* client._stop_event is set
    ntr,            \* number of WebSocketApp transports constructed so far
    owner,          \* transport -> the client whose bound methods are its callbacks
    sock,           \* transport socket: "none", "connecting", "open", "closed"
    wpc,            \* worker thread position inside run_forever
    pc,             \* caller thread position
    cur,            \* caller thread: the client object the running call is inside
    direct,         \* caller thread: the client's method was called directly, not by the adapter
    key,            \* caller thread: the (symbol, exchange, mode) of the running call
    poll,           \* caller thread: iterations of connect()'s wait loop done
    cres,           \* caller thread: value returned by UpstoxWebSocket.connect()
    lbl,            \* what the last step did: operation, outcome, frames sent, callbacks
    requested       \* history: keys whose most recent successful adapter call was subscribe

vars == <<access_token, user_id, ws_client, running, subscriptions, ncl, ws, connected,
          stop_event, ntr, owner, sock, wpc, pc, cur, direct, key, poll, cres, lbl, requested>>

adapterVars == <<access_token, user_id, ws_client, running, subscriptions>>
clientVars == <<ncl, ws, connected, stop_event>>
transportVars == <<ntr, owner, sock, wpc>>
threadVars == <<pc, cur, direct, key, poll, cres>>

-----------------------------------------------------------------------------
(* Bounds of the model *)

NThreads == 2
MaxClients == 2
MaxTransports == 2
MaxSessions == 1

(* for _ in range(30) *)
PollAttempts == 30

None == "None"
Threads == 1..NThreads
Clients == 1..MaxClients
Transports == 1..MaxTransports

(* The thread that makes the lifecycle calls (initialize, connect, disconnect);
   every thread may subscribe and unsubscribe. *)
Owner == 1

Users == {"u1", "u2"}
(* str values the code slices, upper-cases or concatenates are sequences of characters *)
Symbols == {<<"R", "E", "L", "I", "A", "N", "C", "E">>}
Exchanges == {<<"N", "S", "E">>, <<"b", "s", "e">>}
ModeArgs == {"ltpc", "full"}
Keys == {k \in Symbols \X Exchanges \X ModeArgs : k[2] = <<"N", "S", "E">> \/ k[3] = "ltpc"}
Guids == {"g1"}

(* Binary frames are byte strings; text frames are str. *)
BinFrames == {<<10, 1, 7>>, <<10, 2, 7>>}
TextFrames == {"ack"}
Frames == [binary : {TRUE}, data : BinFrames] \cup [binary : {FALSE}, data : TextFrames]

-----------------------------------------------------------------------------
(* Collaborators outside the three source files *)

(* database.auth_db.get_auth_token: token or absent *)
get_auth_token(u) == IF u = "u1" THEN "tok1" ELSE None

(* pb.FeedResponse().ParseFromString: a tag byte, a length byte, the payload;
   anything else is a DecodeError *)
ParseOk(b) == Len(b) >= 2 /\ b[1] = 10 /\ b[2] = Len(b) - 2
ParseFromString(b) == << <<"feeds", SubSeq(b, 3, Len(b))>> >>

(* google.protobuf.json_format.MessageToDict: the message's fields as a dict *)
MessageToDict(m) == [feeds |-> m[1][2]]

(* json.dumps: the request as one text frame *)
json_dumps(req) == <<"json", req>>

(* websocket.WebSocketApp.send: raises unless the socket is open *)
WebSocketApp_send(t, data) ==
    IF sock[t] = "open"
    THEN [err |-> "", sent |-> <<[t |-> t, data |-> data]>>]
    ELSE [err |-> "WebSocketConnectionClosedException", sent |-> <<>>]

-----------------------------------------------------------------------------
(* upstox_mapping.py *)

LowerCase == <<"a", "b", "c", "d", "e", "f", "g", "h", "i", "j", "k", "l", "m",
               "n", "o", "p", "q", "r", "s", "t", "u", "v", "w", "x", "y", "z">>
UpperCase == <<"A", "B", "C", "D", "E", "F", "G", "H", "I", "J", "K", "L", "M",
               "N", "O", "P", "Q", "R", "S", "T", "U", "V", "W", "X", "Y", "Z">>

UpperChar(ch) ==
    IF \E i \in 1..Len(LowerCase) : LowerCase[i] = ch
    THEN UpperCase[CHOOSE i \in 1..Len(LowerCase) : LowerCase[i] = ch]
    ELSE ch

(* str.upper() *)
upper(s) == [i \in 1..Len(s) |-> UpperChar(s[i])]

(* the table with NFO mapped to the broker code of NSE: two keys, one value *)
OA_TO_UPSTOX_collide ==
    {<< <<"N", "S", "E">>, <<"N", "S", "E", "_", "E", "Q">> >>,
     << <<"B", "S", "E">>, <<"B", "S", "E", "_", "E", "Q">> >>,
     << <<"N", "F", "O">>, <<"N", "S", "E", "_", "E", "Q">> >>,
     << <<"B", "F", "O">>, <<"B", "S", "E", "_", "F", "O">> >>,
     << <<"C", "D", "S">>, <<"N", "S", "E", "_", "C", "U", "R", "R", "E", "N", "C", "Y">> >>,
     << <<"B", "C", "D">>, <<"B", "S", "E", "_", "C", "U", "R", "R", "E", "N", "C", "Y">> >>,
     << <<"M", "C", "X">>, <<"M", "C", "X", "_", "F", "O">> >>,
     << <<"N", "S", "E", "_", "I", "N", "D", "E", "X">>, <<"N", "S", "E", "_", "I", "N", "D", "E", "X">> >>,
     << <<"B", "S", "E", "_", "I", "N", "D", "E", "X">>, <<"B", "S", "E", "_", "I", "N", "D", "E", "X">> >>}

OA_TO_UPSTOX ==
    {<< <<"N", "S", "E">>, <<"N", "S", "E", "_", "E", "Q">> >>,
     << <<"B", "S", "E">>, <<"B", "S", "E", "_", "E", "Q">> >>,
     << <<"N", "F", "O">>, <<"N", "S", "E", "_", "F", "O">> >>,
     << <<"B", "F", "O">>, <<"B", "S", "E", "_", "F", "O">> >>,
     << <<"C", "D", "S">>, <<"N", "S", "E", "_", "C", "U", "R", "R", "E", "N", "C", "Y">> >>,
     << <<"B", "C", "D">>, <<"B", "S", "E", "_", "C", "U", "R", "R", "E", "N", "C", "Y">> >>,
     << <<"M", "C", "X">>, <<"M", "C", "X", "_", "F", "O">> >>,
     << <<"N", "S", "E", "_", "I", "N", "D", "E", "X">>, <<"N", "S", "E", "_", "I", "N", "D", "E", "X">> >>,
     << <<"B", "S", "E", "_", "I", "N", "D", "E", "X">>, <<"B", "S", "E", "_", "I", "N", "D", "E", "X">> >>}

(* dict.get(k, default) on a dict given as its set of (key, value) items *)
dict_get(items, k, default) ==
    IF \E it \in items : it[1] = k
    THEN (CHOOSE it \in items : it[1] = k)[2]
    ELSE default

(* to_upstox_exchange looking up the code as given, not upper-cased *)
to_upstox_exchange_case_sensitive(oa_exchange) ==
    dict_get(OA_TO_UPSTOX, oa_exchange, upper(oa_exchange))

to_upstox_exchange(oa_exchange) == dict_get(OA_TO_UPSTOX, upper(oa_exchange), upper(oa_exchange))

(* UPSTOX_TO_OA = {v: k for k, v in OA_TO_UPSTOX.items()}: one item per value;
   of two keys with one value the comprehension keeps one *)
UPSTOX_TO_OA ==
    {<<v, (CHOOSE it \in OA_TO_UPSTOX : it[2] = v)[1]>> : v \in {it[2] : it \in OA_TO_UPSTOX}}

to_oa_exchange(upstox_exchange) ==
    dict_get(UPSTOX_TO_OA, upper(upstox_exchange), upper(upstox_exchange))

(* UpstoxCapabilityRegistry *)
MODES == <<"ltpc", "option_greeks", "full", "full_d30">>

MAX_SUBSCRIPTIONS ==
    {<<"ltpc", 5000>>, <<"option_greeks", 3000>>, <<"full", 2000>>, <<"full_d30", 50>>}

(* mode in cls.MODES *)
is_mode_supported(mode) == \E i \in 1..Len(MODES) : MODES[i] = mode

(* get_max_subscriptions falling back to the ltpc ceiling *)
get_max_subscriptions_fallback(mode) == dict_get(MAX_SUBSCRIPTIONS, mode, 5000)

get_max_subscriptions(mode) == dict_get(MAX_SUBSCRIPTIONS, mode, 0)

-----------------------------------------------------------------------------
(* Labels of steps: the operation a step belongs to, the thread or transport
   that took it, how the call ended in this step ("none": still running),
   the value returned, the argument, the frames written to the wire, the
   owner's callbacks invoked, for _on_message the length of the run of
   frames valid, corrupt, valid that this frame completes on its transport,
   and for unsubscribe the value its dict.pop returned. *)

NoVal == [status |-> "none"]

Lbl(op, who, res, err, val, arg, sent, cb) ==
    [op |-> op, who |-> who, res |-> res, err |-> err, val |-> val, arg |-> arg,
     sent |-> sent, cb |-> cb, run |-> 0, popped |-> None]

Cb(name, arg) == [name |-> name, arg |-> arg]

-----------------------------------------------------------------------------
Init ==
    /\ access_token = None
    /\ user_id = None
    /\ ws_client = 0
    /\ running = FALSE
    /\ subscriptions = [k \in {} |-> TRUE]
    /\ ncl = 0
    /\ ws = [c \in Clients |-> 0]
    /\ connected = [c \in Clients |-> FALSE]
    /\ stop_event = [c \in Clients |-> FALSE]
    /\ ntr = 0
    /\ owner = [t \in Transports |-> 0]
    /\ sock = [t \in Transports |-> "none"]
    /\ wpc = [t \in Transports |-> "none"]
    /\ pc = [th \in Threads |-> "idle"]
    /\ cur = [th \in Threads |-> 0]
    /\ direct = [th \in Threads |-> FALSE]
    /\ key = [th \in Threads |-> <<>>]
    /\ poll = [th \in Threads |-> 0]
    /\ cres = [th \in Threads |-> FALSE]
    /\ lbl = Lbl("init", 0, "none", "", NoVal, <<>>, <<>>, <<>>)
    /\ requested = {}

-----------------------------------------------------------------------------
(* dict operations of adapter.subscriptions *)

(* self.subscriptions = {k: v}: the dict is replaced, not updated *)
dict_replace(d, k, v) == [x \in {k} |-> v]

(* d[k] = v *)
dict_set(d, k, v) == [x \in (DOMAIN d) \cup {k} |-> IF x = k THEN v ELSE d[x]]

(* pop that forgets the mode: every key of the same symbol and exchange goes *)
dict_pop_any_mode(d, k) == [x \in {y \in DOMAIN d : y[1] # k[1] \/ y[2] # k[2]} |-> d[x]]

(* d.pop(k, None) *)
dict_pop(d, k) == [x \in (DOMAIN d) \ {k} |-> d[x]]

-----------------------------------------------------------------------------
(* upstox_websocket.py: the methods a caller thread runs *)

(* subscribe() guarded like send_binary: nothing is sent and nothing is raised
   when there is no open transport *)
Ws_subscribe_guarded(c, guid, mode, instrument_keys) ==
    LET req == [guid |-> guid, method |-> "sub",
                data |-> [mode |-> mode, instrumentKeys |-> instrument_keys]]
    IN  IF ws[c] # 0 /\ sock[ws[c]] = "open"
        THEN WebSocketApp_send(ws[c], json_dumps(req))
        ELSE [err |-> "", sent |-> <<>>]

(* subscribe(guid, mode, instrument_keys): build the request, self.ws.send it *)
Ws_subscribe(c, guid, mode, instrument_keys) ==
    LET req == [guid |-> guid, method |-> "sub",
                data |-> [mode |-> mode, instrumentKeys |-> instrument_keys]]
    IN  IF ws[c] = 0
        THEN [err |-> "AttributeError", sent |-> <<>>]
        ELSE WebSocketApp_send(ws[c], json_dumps(req))

(* unsubscribe(guid, instrument_keys) *)
Ws_unsubscribe(c, guid, instrument_keys) ==
    LET req == [guid |-> guid, method |-> "unsub",
                data |-> [instrumentKeys |-> instrument_keys]]
    IN  IF ws[c] = 0
        THEN [err |-> "AttributeError", sent |-> <<>>]
        ELSE WebSocketApp_send(ws[c], json_dumps(req))

(* connect(), up to the start of the wait loop: a new WebSocketApp bound to this
   client's callbacks and a new daemon thread running its run_forever *)
Ws_connect_start(th, isDirect) ==
    /\ ntr < MaxTransports
    /\ LET c == ws_client
           t == ntr + 1
       IN  /\ ntr' = t
           /\ ws' = [ws EXCEPT ![c] = t]
           /\ owner' = [owner EXCEPT ![t] = c]
           /\ sock' = [sock EXCEPT ![t] = "connecting"]
           /\ wpc' = [wpc EXCEPT ![t] = "handshake"]
           /\ cur' = [cur EXCEPT ![th] = c]
    /\ direct' = [direct EXCEPT ![th] = isDirect]
    /\ pc' = [pc EXCEPT ![th] = "connect_poll"]
    /\ poll' = [poll EXCEPT ![th] = 0]
    /\ lbl' = Lbl("ws_connect", th, "none", "", NoVal, <<>>, <<>>, <<>>)
    /\ UNCHANGED <<adapterVars, ncl, connected, stop_event, key, cres, requested>>

(* connect() as called by the adapter's connect(): self.ws_client.connect() *)
Ws_connect(th) ==
    /\ pc[th] = "connect_call"
    /\ Ws_connect_start(th, FALSE)

(* connect() as called by the owner on adapter.ws_client *)
Ws_connect_direct(th) ==
    /\ pc[th] = "idle"
    /\ th = Owner
    /\ ws_client # 0
    /\ Ws_connect_start(th, TRUE)

(* connect(), one iteration of the wait loop: return True when the flag is set,
   otherwise wait; after the last wait return False *)
Ws_connect_poll(th) ==
    /\ pc[th] = "connect_poll"
    /\ LET ret(b) ==
               /\ poll' = [poll EXCEPT ![th] = 0]
               /\ lbl' = Lbl("ws_connect", th, "ok", "", [status |-> "returned", result |-> b],
                             <<>>, <<>>, <<>>)
               /\ IF direct[th]
                  THEN /\ pc' = [pc EXCEPT ![th] = "idle"]
                       /\ cur' = [cur EXCEPT ![th] = 0]
                       /\ direct' = [direct EXCEPT ![th] = FALSE]
                       /\ UNCHANGED cres
                  ELSE /\ pc' = [pc EXCEPT ![th] = "connect_ret"]
                       /\ cres' = [cres EXCEPT ![th] = b]
                       /\ UNCHANGED <<cur, direct>>
       IN  IF connected[cur[th]]
           THEN ret(TRUE)
           ELSE IF poll[th] + 1 < PollAttempts
           THEN /\ poll' = [poll EXCEPT ![th] = poll[th] + 1]
                /\ lbl' = Lbl("ws_connect", th, "none", "", NoVal, <<>>, <<>>, <<>>)
                /\ UNCHANGED <<cres, pc, cur, direct>>
           ELSE ret(FALSE)
    /\ UNCHANGED <<adapterVars, clientVars, transportVars, key, requested>>

(* disconnect(), called on adapter.ws_client by the owner: set the stop event,
   close the transport if there is one *)
Ws_disconnect(th) ==
    /\ pc[th] = "idle"
    /\ th = Owner
    /\ ws_client # 0
    /\ LET c == ws_client
       IN  /\ stop_event' = [stop_event EXCEPT ![c] = TRUE]
           /\ sock' = IF ws[c] # 0 THEN [sock EXCEPT ![ws[c]] = "closed"] ELSE sock
           /\ cur' = [cur EXCEPT ![th] = c]
    /\ pc' = [pc EXCEPT ![th] = "disc_flag"]
    /\ direct' = [direct EXCEPT ![th] = TRUE]
    /\ lbl' = Lbl("ws_disconnect", th, "none", "", NoVal, <<>>, <<>>, <<>>)
    /\ UNCHANGED <<adapterVars, ncl, ws, connected, ntr, owner, wpc, key, poll, cres, requested>>

(* disconnect(), last statement: self.connected = False *)
Ws_disconnect_flag(th) ==
    /\ pc[th] = "disc_flag"
    /\ connected' = [connected EXCEPT ![cur[th]] = FALSE]
    /\ IF direct[th]
       THEN /\ pc' = [pc EXCEPT ![th] = "idle"]
            /\ cur' = [cur EXCEPT ![th] = 0]
            /\ direct' = [direct EXCEPT ![th] = FALSE]
       ELSE /\ pc' = [pc EXCEPT ![th] = "disc_ret"]
            /\ UNCHANGED <<cur, direct>>
    /\ lbl' = Lbl("ws_disconnect", th, "ok", "", NoVal, <<>>, <<>>, <<>>)
    /\ UNCHANGED <<adapterVars, ncl, ws, stop_event, transportVars, key, poll, cres, requested>>

-----------------------------------------------------------------------------
(* upstox_adapter.py *)

(* initialize(): the user is stored (so is broker_name, which nothing reads);
   the credential is stored when the lookup finds one *)
Adapter_initialize(th, u) ==
    /\ pc[th] = "idle"
    /\ th = Owner
    /\ user_id' = u
    /\ LET token == IF u # None THEN get_auth_token(u) ELSE None
       IN  access_token' = IF token # None THEN token ELSE access_token
    /\ lbl' = Lbl("initialize", th, "ok", "", NoVal, u, <<>>, <<>>)
    /\ UNCHANGED <<ws_client, running, subscriptions, clientVars, transportVars, threadVars,
                   requested>>

(* connect() without the credential check *)
Adapter_connect_unchecked(th) ==
    /\ pc[th] = "idle"
    /\ th = Owner
    /\ ncl < MaxClients
    /\ ncl' = ncl + 1
    /\ ws_client' = ncl + 1
    /\ pc' = [pc EXCEPT ![th] = "connect_call"]
    /\ lbl' = Lbl("connect", th, "none", "", NoVal, <<>>, <<>>, <<>>)
    /\ UNCHANGED <<access_token, user_id, running, subscriptions, ws, connected, stop_event,
                   transportVars, cur, direct, key, poll, cres, requested>>

(* connect(): the credential check and the construction of the client *)
Adapter_connect(th) ==
    /\ pc[th] = "idle"
    /\ th = Owner
    /\ IF access_token = None
       THEN /\ lbl' = Lbl("connect", th, "raised", "Exception", NoVal, <<>>, <<>>, <<>>)
            /\ UNCHANGED <<ws_client, ncl, pc>>
       ELSE /\ ncl < MaxClients
            /\ ncl' = ncl + 1
            /\ ws_client' = ncl + 1
            /\ pc' = [pc EXCEPT ![th] = "connect_call"]
            /\ lbl' = Lbl("connect", th, "none", "", NoVal, <<>>, <<>>, <<>>)
    /\ UNCHANGED <<access_token, user_id, running, subscriptions, ws, connected, stop_event,
                   transportVars, cur, direct, key, poll, cres, requested>>

(* connect() setting running to what the client's connect() returned *)
Adapter_connect_ret_result(th) ==
    /\ pc[th] = "connect_ret"
    /\ running' = cres[th]
    /\ pc' = [pc EXCEPT ![th] = "idle"]
    /\ cur' = [cur EXCEPT ![th] = 0]
    /\ cres' = [cres EXCEPT ![th] = FALSE]
    /\ lbl' = Lbl("connect", th, "ok", "", [status |-> "returned", result |-> None],
                  cres[th], <<>>, <<>>)
    /\ UNCHANGED <<access_token, user_id, ws_client, subscriptions, clientVars, transportVars,
                   direct, key, poll, requested>>

(* connect(), after self.ws_client.connect() returned: self.running = True *)
Adapter_connect_ret(th) ==
    /\ pc[th] = "connect_ret"
    /\ running' = TRUE
    /\ pc' = [pc EXCEPT ![th] = "idle"]
    /\ cur' = [cur EXCEPT ![th] = 0]
    /\ cres' = [cres EXCEPT ![th] = FALSE]
    /\ lbl' = Lbl("connect", th, "ok", "", [status |-> "returned", result |-> None],
                  cres[th], <<>>, <<>>)
    /\ UNCHANGED <<access_token, user_id, ws_client, subscriptions, clientVars, transportVars,
                   direct, key, poll, requested>>

(* disconnect() without the test for a client: self.ws_client.disconnect() on
   None raises *)
Adapter_disconnect_unguarded(th) ==
    /\ pc[th] = "idle"
    /\ th = Owner
    /\ IF ws_client = 0
       THEN /\ lbl' = Lbl("disconnect", th, "raised", "AttributeError", NoVal, <<>>, <<>>, <<>>)
            /\ UNCHANGED <<running, stop_event, sock, pc, cur>>
       ELSE LET c == ws_client
            IN  /\ stop_event' = [stop_event EXCEPT ![c] = TRUE]
                /\ sock' = IF ws[c] # 0 THEN [sock EXCEPT ![ws[c]] = "closed"] ELSE sock
                /\ pc' = [pc EXCEPT ![th] = "disc_flag"]
                /\ cur' = [cur EXCEPT ![th] = c]
                /\ lbl' = Lbl("disconnect", th, "none", "", NoVal, <<>>, <<>>, <<>>)
                /\ UNCHANGED running
    /\ UNCHANGED <<access_token, user_id, ws_client, subscriptions, ncl, ws, connected,
                   ntr, owner, wpc, direct, key, poll, cres, requested>>

(* disconnect(): with a client, its disconnect() up to self.ws.close();
   without one, self.running = False *)
Adapter_disconnect(th) ==
    /\ pc[th] = "idle"
    /\ th = Owner
    /\ IF ws_client = 0
       THEN /\ running' = FALSE
            /\ lbl' = Lbl("disconnect", th, "ok", "", NoVal, <<>>, <<>>, <<>>)
            /\ UNCHANGED <<stop_event, sock, pc, cur>>
       ELSE LET c == ws_client
            IN  /\ stop_event' = [stop_event EXCEPT ![c] = TRUE]
                /\ sock' = IF ws[c] # 0 THEN [sock EXCEPT ![ws[c]] = "closed"] ELSE sock
                /\ pc' = [pc EXCEPT ![th] = "disc_flag"]
                /\ cur' = [cur EXCEPT ![th] = c]
                /\ lbl' = Lbl("disconnect", th, "none", "", NoVal, <<>>, <<>>, <<>>)
                /\ UNCHANGED running
    /\ UNCHANGED <<access_token, user_id, ws_client, subscriptions, ncl, ws, connected,
                   ntr, owner, wpc, direct, key, poll, cres, requested>>

(* disconnect(), after self.ws_client.disconnect() returned: self.running = False *)
Adapter_disconnect_ret(th) ==
    /\ pc[th] = "disc_ret"
    /\ running' = FALSE
    /\ pc' = [pc EXCEPT ![th] = "idle"]
    /\ cur' = [cur EXCEPT ![th] = 0]
    /\ lbl' = Lbl("disconnect", th, "ok", "", NoVal, <<>>, <<>>, <<>>)
    /\ UNCHANGED <<access_token, user_id, ws_client, subscriptions, clientVars, transportVars,
                   direct, key, poll, cres, requested>>

(* the instrument key built from the exchange as given, not mapped *)
instrument_key_unmapped(symbol, exchange) == exchange \o <<"|">> \o symbol

(* f"{UpstoxExchangeMapper.to_upstox_exchange(exchange)}|{symbol}" *)
instrument_key(symbol, exchange) == to_upstox_exchange(exchange) \o <<"|">> \o symbol

(* subscribe() recording the key before the send *)
Adapter_subscribe_record_first(th, k, guid) ==
    /\ pc[th] = "idle"
    /\ subscriptions' = dict_set(subscriptions, k, TRUE)
    /\ LET r == IF ws_client = 0
                THEN [err |-> "AttributeError", sent |-> <<>>]
                ELSE Ws_subscribe(ws_client, guid, k[3], <<instrument_key(k[1], k[2])>>)
       IN  IF r.err # ""
           THEN /\ lbl' = Lbl("subscribe", th, "raised", r.err, NoVal, k, r.sent, <<>>)
                /\ UNCHANGED <<pc, key>>
           ELSE /\ pc' = [pc EXCEPT ![th] = "sub_record"]
                /\ key' = [key EXCEPT ![th] = k]
                /\ lbl' = Lbl("subscribe", th, "none", "", NoVal, k, r.sent, <<>>)
    /\ UNCHANGED <<access_token, user_id, ws_client, running, clientVars, transportVars,
                   cur, direct, poll, cres, requested>>

(* subscribe(), up to self.ws_client.subscribe(...) *)
Adapter_subscribe(th, k, guid) ==
    /\ pc[th] = "idle"
    /\ LET r == IF ws_client = 0
                THEN [err |-> "AttributeError", sent |-> <<>>]
                ELSE Ws_subscribe(ws_client, guid, k[3], <<instrument_key(k[1], k[2])>>)
       IN  IF r.err # ""
           THEN /\ lbl' = Lbl("subscribe", th, "raised", r.err, NoVal, k, r.sent, <<>>)
                /\ UNCHANGED <<pc, key>>
           ELSE /\ pc' = [pc EXCEPT ![th] = "sub_record"]
                /\ key' = [key EXCEPT ![th] = k]
                /\ lbl' = Lbl("subscribe", th, "none", "", NoVal, k, r.sent, <<>>)
    /\ UNCHANGED <<adapterVars, clientVars, transportVars, cur, direct, poll, cres, requested>>

(* subscribe(), after the send: record the key, return the acknowledgement *)
Adapter_subscribe_record(th) ==
    /\ pc[th] = "sub_record"
    /\ subscriptions' = dict_set(subscriptions, key[th], TRUE)
    /\ requested' = requested \cup {key[th]}
    /\ pc' = [pc EXCEPT ![th] = "idle"]
    /\ key' = [key EXCEPT ![th] = <<>>]
    /\ lbl' = Lbl("subscribe", th, "ok", "",
                  [status |-> "subscribed", symbol |-> key[th][1], exchange |-> key[th][2],
                   mode |-> key[th][3]], key[th], <<>>, <<>>)
    /\ UNCHANGED <<access_token, user_id, ws_client, running, clientVars, transportVars,
                   cur, direct, poll, cres>>

(* unsubscribe(), up to self.ws_client.unsubscribe(...) *)
Adapter_unsubscribe(th, k, guid) ==
    /\ pc[th] = "idle"
    /\ LET r == IF ws_client = 0
                THEN [err |-> "AttributeError", sent |-> <<>>]
                ELSE Ws_unsubscribe(ws_client, guid, <<instrument_key(k[1], k[2])>>)
       IN  IF r.err # ""
           THEN /\ lbl' = Lbl("unsubscribe", th, "raised", r.err, NoVal, k, r.sent, <<>>)
                /\ UNCHANGED <<pc, key>>
           ELSE /\ pc' = [pc EXCEPT ![th] = "unsub_record"]
                /\ key' = [key EXCEPT ![th] = k]
                /\ lbl' = Lbl("unsubscribe", th, "none", "", NoVal, k, r.sent, <<>>)
    /\ UNCHANGED <<adapterVars, clientVars, transportVars, cur, direct, poll, cres, requested>>

(* unsubscribe() removing with del: a key that is not there raises KeyError *)
Adapter_unsubscribe_record_del(th) ==
    /\ pc[th] = "unsub_record"
    /\ subscriptions' = dict_pop(subscriptions, key[th])
    /\ requested' = requested \ {key[th]}
    /\ pc' = [pc EXCEPT ![th] = "idle"]
    /\ key' = [key EXCEPT ![th] = <<>>]
    /\ lbl' = IF key[th] \in DOMAIN subscriptions
              THEN Lbl("unsubscribe", th, "ok", "",
                       [status |-> "unsubscribed", symbol |-> key[th][1],
                        exchange |-> key[th][2], mode |-> key[th][3]], key[th], <<>>, <<>>)
              ELSE Lbl("unsubscribe", th, "raised", "KeyError", NoVal, key[th], <<>>, <<>>)
    /\ UNCHANGED <<access_token, user_id, ws_client, running, clientVars, transportVars,
                   cur, direct, poll, cres>>

(* unsubscribe(), after the send: pop the key, return the acknowledgement *)
Adapter_unsubscribe_record(th) ==
    /\ pc[th] = "unsub_record"
    /\ subscriptions' = dict_pop(subscriptions, key[th])
    /\ requested' = requested \ {key[th]}
    /\ pc' = [pc EXCEPT ![th] = "idle"]
    /\ key' = [key EXCEPT ![th] = <<>>]
    /\ lbl' = [Lbl("unsubscribe", th, "ok", "",
                   [status |-> "unsubscribed", symbol |-> key[th][1], exchange |-> key[th][2],
                    mode |-> key[th][3]], key[th], <<>>, <<>>)
               EXCEPT !.popped = IF key[th] \in DOMAIN subscriptions
                                 THEN subscriptions[key[th]] ELSE None]
    /\ UNCHANGED <<access_token, user_id, ws_client, running, clientVars, transportVars,
                   cur, direct, poll, cres>>

-----------------------------------------------------------------------------
(* upstox_websocket.py: the callbacks, run by the worker thread of a transport.
   The adapter's own callbacks (the owner's on_open, on_message, on_error,
   on_close) only log, so a callback is recorded in the step's label. *)

(* run_forever: the handshake completes and the socket is open *)
Worker_handshake(t) ==
    /\ wpc[t] = "handshake"
    /\ sock[t] = "connecting"
    /\ sock' = [sock EXCEPT ![t] = "open"]
    /\ wpc' = [wpc EXCEPT ![t] = "call_open"]
    /\ lbl' = Lbl("handshake", t, "none", "", NoVal, <<>>, <<>>, <<>>)
    /\ UNCHANGED <<adapterVars, clientVars, ntr, owner, threadVars, requested>>

(* _on_open *)
Ws_on_open(t) ==
    /\ wpc[t] = "call_open"
    /\ connected' = [connected EXCEPT ![owner[t]] = TRUE]
    /\ wpc' = [wpc EXCEPT ![t] = "loop"]
    /\ lbl' = Lbl("on_open", t, "ok", "", NoVal, <<>>, <<>>, <<Cb("on_open", t)>>)
    /\ UNCHANGED <<adapterVars, ncl, ws, stop_event, ntr, owner, sock, threadVars, requested>>

(* the run of frames valid, corrupt, valid that a frame extends on transport t *)
RunNext(t, f) ==
    LET st == IF lbl.op = "on_message" /\ lbl.who = t THEN lbl.run ELSE 0
        good == f.binary /\ ParseOk(f.data)
        bad == f.binary /\ ~ParseOk(f.data)
    IN  CASE good /\ st = 2 -> 3
          [] good /\ st # 2 -> 1
          [] bad /\ st \in {1, 3} -> 2
          [] OTHER -> 0

(* _protobuf_to_dict *)
protobuf_to_dict(proto_msg) == MessageToDict(proto_msg)

(* _on_message putting every frame, text too, through the decoder *)
on_message_callbacks_decode_all(message) ==
    IF message.binary /\ ParseOk(message.data)
    THEN <<Cb("on_message", protobuf_to_dict(ParseFromString(message.data)))>>
    ELSE <<Cb("on_error", "DecodeError")>>

(* _on_message: the owner's callbacks it makes for one frame *)
on_message_callbacks(message) ==
    IF message.binary
    THEN IF ParseOk(message.data)
         THEN <<Cb("on_message", protobuf_to_dict(ParseFromString(message.data)))>>
         ELSE <<Cb("on_error", "DecodeError")>>
    ELSE <<Cb("on_message", message.data)>>

(* _on_message without its try/except: a decode failure escapes into
   run_forever, which reports it and tears the connection down *)
Ws_on_message_unguarded(t, message) ==
    /\ wpc[t] = "loop"
    /\ sock[t] = "open"
    /\ IF message.binary /\ ~ParseOk(message.data)
       THEN /\ lbl' = [Lbl("on_message", t, "raised", "DecodeError", NoVal, message, <<>>,
                           <<>>) EXCEPT !.run = RunNext(t, message)]
            /\ sock' = [sock EXCEPT ![t] = "closed"]
            /\ wpc' = [wpc EXCEPT ![t] = "call_close"]
       ELSE /\ lbl' = [Lbl("on_message", t, "ok", "", NoVal, message, <<>>,
                           on_message_callbacks(message)) EXCEPT !.run = RunNext(t, message)]
            /\ UNCHANGED <<sock, wpc>>
    /\ UNCHANGED <<adapterVars, clientVars, ntr, owner, threadVars, requested>>

(* _on_message *)
Ws_on_message(t, message) ==
    /\ wpc[t] = "loop"
    /\ sock[t] = "open"
    /\ lbl' = [Lbl("on_message", t, "ok", "", NoVal, message, <<>>,
                   on_message_callbacks(message)) EXCEPT !.run = RunNext(t, message)]
    /\ UNCHANGED <<adapterVars, clientVars, transportVars, threadVars, requested>>

(* _on_error, called by run_forever when the handshake or the socket fails;
   run_forever then tears the connection down *)
Ws_on_error(t) ==
    /\ wpc[t] \in {"handshake", "loop"}
    /\ sock' = [sock EXCEPT ![t] = "closed"]
    /\ wpc' = [wpc EXCEPT ![t] = "call_close"]
    /\ lbl' = Lbl("on_error", t, "ok", "", NoVal, <<>>, <<>>, <<Cb("on_error", "TransportError")>>)
    /\ UNCHANGED <<adapterVars, clientVars, ntr, owner, threadVars, requested>>

(* _on_close, called by run_forever when the connection is closed by either
   side or torn down after an error *)
Ws_on_close(t) ==
    /\ wpc[t] \in {"loop", "call_close"}
    /\ sock' = [sock EXCEPT ![t] = "closed"]
    /\ connected' = [connected EXCEPT ![owner[t]] = FALSE]
    /\ wpc' = [wpc EXCEPT ![t] = "done"]
    /\ lbl' = Lbl("on_close", t, "ok", "", NoVal, <<>>, <<>>, <<Cb("on_close", t)>>)
    /\ UNCHANGED <<adapterVars, ncl, ws, stop_event, ntr, owner, threadVars, requested>>

-----------------------------------------------------------------------------
(* One session of the adapter: every call and event, one connect() *)
Next ==
    \/ \E th \in Threads, u \in Users : Adapter_initialize(th, u)
    \/ \E th \in Threads : ncl < MaxSessions /\ Adapter_connect(th)
    \/ \E th \in Threads : Ws_connect(th)
    \/ \E th \in Threads : Ws_connect_poll(th)
    \/ \E th \in Threads : Adapter_connect_ret(th)
    \/ \E th \in Threads : Adapter_disconnect(th)
    \/ \E th \in Threads : Ws_disconnect(th)
    \/ \E th \in Threads : Ws_disconnect_flag(th)
    \/ \E th \in Threads : Adapter_disconnect_ret(th)
    \/ \E th \in Threads, k \in Keys, g \in Guids : Adapter_subscribe(th, k, g)
    \/ \E th \in Threads : Adapter_subscribe_record(th)
    \/ \E th \in Threads, k \in Keys, g \in Guids : Adapter_unsubscribe(th, k, g)
    \/ \E th \in Threads : Adapter_unsubscribe_record(th)
    \/ \E t \in Transports : Worker_handshake(t)
    \/ \E t \in Transports : Ws_on_open(t)
    \/ \E t \in Transports, f \in Frames : Ws_on_message(t, f)
    \/ \E t \in Transports : Ws_on_error(t)
    \/ \E t \in Transports : Ws_on_close(t)

Spec == Init /\ [][Next]_vars

(* Repeated connects: the lifecycle calls, on the adapter and directly on its
   client, without traffic *)
NextLife ==
    \/ \E th \in Threads, u \in Users : Adapter_initialize(th, u)
    \/ \E th \in Threads : Adapter_connect(th)
    \/ \E th \in Threads : Ws_connect(th)
    \/ \E th \in Threads : Ws_connect_direct(th)
    \/ \E th \in Threads : Ws_connect_poll(th)
    \/ \E th \in Threads : Adapter_connect_ret(th)
    \/ \E th \in Threads : Adapter_disconnect(th)
    \/ \E th \in Threads : Ws_disconnect(th)
    \/ \E th \in Threads : Ws_disconnect_flag(th)
    \/ \E th \in Threads : Adapter_disconnect_ret(th)
    \/ \E t \in Transports : Worker_handshake(t)
    \/ \E t \in Transports : Ws_on_open(t)
    \/ \E t \in Transports : Ws_on_error(t)
    \/ \E t \in Transports : Ws_on_close(t)

SpecLife == Init /\ [][NextLife]_vars

-----------------------------------------------------------------------------
(* upstox_mapping.py: the class methods, called on their own.  A call is one
   step; its argument and its result are the step's label. *)

LowerChar(ch) ==
    IF \E i \in 1..Len(UpperCase) : UpperCase[i] = ch
    THEN LowerCase[CHOOSE i \in 1..Len(UpperCase) : UpperCase[i] = ch]
    ELSE ch

lower(s) == [i \in 1..Len(s) |-> LowerChar(s[i])]

(* the codes of both tables, the same in lower case, mixed case, unknown codes,
   the empty string *)
ExchangeInputs ==
    LET codes == {it[1] : it \in OA_TO_UPSTOX} \cup {it[2] : it \in OA_TO_UPSTOX}
    IN  codes \cup {lower(x) : x \in codes}
              \cup {<<"N", "s", "e">>, <<"m", "C", "x", "_", "F", "o">>,
                    <<"X", "Y", "Z">>, <<"x", "y", "z">>, <<"N", "S", "E", "1">>, <<>>}

ModeInputs ==
    {"ltpc", "option_greeks", "full", "full_d30", "LTPC", "quote", "depth", "full_d5", ""}

Mapper_to_upstox_exchange(c) ==
    /\ lbl' = Lbl("to_upstox_exchange", 0, "ok", "", to_upstox_exchange(c), c, <<>>, <<>>)
    /\ UNCHANGED <<adapterVars, clientVars, transportVars, threadVars, requested>>

Mapper_to_oa_exchange(c) ==
    /\ lbl' = Lbl("to_oa_exchange", 0, "ok", "", to_oa_exchange(c), c, <<>>, <<>>)
    /\ UNCHANGED <<adapterVars, clientVars, transportVars, threadVars, requested>>

(* to_oa_exchange(to_upstox_exchange(x)) *)
Mapper_round_trip(x) ==
    /\ lbl' = Lbl("round_trip", 0, "ok", "", to_oa_exchange(to_upstox_exchange(x)), x,
                  <<>>, <<>>)
    /\ UNCHANGED <<adapterVars, clientVars, transportVars, threadVars, requested>>

Registry_is_mode_supported(mode) ==
    /\ lbl' = Lbl("is_mode_supported", 0, "ok", "", is_mode_supported(mode), mode, <<>>, <<>>)
    /\ UNCHANGED <<adapterVars, clientVars, transportVars, threadVars, requested>>

Registry_get_max_subscriptions(mode) ==
    /\ lbl' = Lbl("get_max_subscriptions", 0, "ok", "", get_max_subscriptions(mode), mode,
                  <<>>, <<>>)
    /\ UNCHANGED <<adapterVars, clientVars, transportVars, threadVars, requested>>

NextMap ==
    \/ \E c \in ExchangeInputs : Mapper_to_upstox_exchange(c)
    \/ \E c \in ExchangeInputs : Mapper_to_oa_exchange(c)
    \/ \E x \in ExchangeInputs : Mapper_round_trip(x)
    \/ \E mode \in ModeInputs : Registry_is_mode_supported(mode)
    \/ \E mode \in ModeInputs : Registry_get_max_subscriptions(mode)

SpecMap == Init /\ [][NextMap]_vars

-----------------------------------------------------------------------------
(* The properties checked *)

(* C1: fault isolation in the receive path.  Every frame handed to _on_message
   is handled on its own: a valid binary frame gives the owner's on_message the
   decoded record, a corrupt binary frame gives the owner's on_error the decode
   failure and changes neither the connected flag nor the transport handle nor
   the socket, and leaves the worker in its receive loop; no exception escapes
   _on_message.  So in a run valid, corrupt, valid the first and the third
   records are delivered and the second is reported. *)
C1_FaultIsolation ==
    [][lbl'.op = "on_message" =>
        LET f == lbl'.arg
            t == lbl'.who
        IN  /\ lbl'.res = "ok"
            /\ (f.binary /\ ParseOk(f.data)) =>
                   lbl'.cb = <<Cb("on_message", [feeds |-> SubSeq(f.data, 3, Len(f.data))])>>
            /\ (f.binary /\ ~ParseOk(f.data)) =>
                   lbl'.cb = <<Cb("on_error", "DecodeError")>>
            /\ connected' = connected
            /\ ws' = ws
            /\ sock' = sock
            /\ wpc'[t] = "loop"]_vars

(* C1 witness: a valid frame delivered right after a corrupt frame that
   followed a valid one, the client still connected and receiving *)
C1_Witness ==
    /\ lbl.op = "on_message"
    /\ lbl.run = 3
    /\ lbl.cb = <<Cb("on_message", [feeds |-> <<7>>])>>
    /\ connected[owner[lbl.who]]
    /\ ws[owner[lbl.who]] = lbl.who
    /\ sock[lbl.who] = "open"
    /\ wpc[lbl.who] = "loop"

(* C2: whenever the transport reports an error (_on_error) or a close
   (_on_close) while the connected flag is set, the flag is false afterwards,
   and only a connect() call creates a transport. *)
C2_ErrorOrCloseDisconnects ==
    [][/\ (lbl'.op \in {"on_error", "on_close"} /\ connected[owner[lbl'.who]]) =>
              ~connected'[owner[lbl'.who]]
       /\ ntr' # ntr => lbl'.op = "ws_connect"]_vars

(* C3: at most one transport with a running worker per client, and per adapter. *)
LiveTransports == {t \in Transports : wpc[t] \in {"handshake", "call_open", "loop", "call_close"}}

C3_AtMostOneLive ==
    /\ \A c \in Clients : Cardinality({t \in LiveTransports : owner[t] = c}) <= 1
    /\ Cardinality(LiveTransports) <= 1

(* The client the adapter holds has no open transport *)
NotOpen == ws_client = 0 \/ ws[ws_client] = 0 \/ sock[ws[ws_client]] # "open"

(* C4: a subscribe or unsubscribe made while the client has no open transport
   (no client or no transport yet, a handshake still running, after
   disconnect(), after a transport close or error) raises and writes nothing
   to the wire, and nothing is ever written later on its behalf: a frame is
   written only in the step of a call made on an open transport, to that
   transport, and it is that call's own request. *)
C4_NoSendWhenNotConnected ==
    [][/\ (lbl'.op \in {"subscribe", "unsubscribe"} /\ lbl'.res # "ok" /\ NotOpen) =>
              /\ lbl'.res = "raised"
              /\ lbl'.err \in {"AttributeError", "WebSocketConnectionClosedException"}
              /\ lbl'.sent = <<>>
       /\ lbl'.sent # <<>> =>
              /\ lbl'.op \in {"subscribe", "unsubscribe"}
              /\ lbl'.res = "none"
              /\ ~NotOpen
              /\ Len(lbl'.sent) = 1
              /\ lbl'.sent[1].t = ws[ws_client]
              /\ lbl'.sent[1].data[2].method = (IF lbl'.op = "subscribe" THEN "sub" ELSE "unsub")
              /\ lbl'.sent[1].data[2].data.instrumentKeys =
                     <<instrument_key(lbl'.arg[1], lbl'.arg[2])>>]_vars

(* C4 witness: a subscribe raised after the transport of the client was closed *)
C4_Witness ==
    /\ lbl.op = "subscribe"
    /\ lbl.res = "raised"
    /\ lbl.err = "WebSocketConnectionClosedException"
    /\ lbl.sent = <<>>
    /\ ws_client # 0
    /\ ws[ws_client] # 0
    /\ sock[ws[ws_client]] = "closed"
    /\ wpc[ws[ws_client]] = "done"

(* C5: Adapter.subscribe records only on success.  When it returns, the key is
   in the subscription set and the acknowledgement names the key; when the
   send fails, also for want of a client, the error is raised in the call and
   the subscription set is what it was; nothing is recorded before the send
   has succeeded. *)
C5_SubscribeRecordsOnSuccess ==
    [][lbl'.op = "subscribe" =>
        /\ lbl'.res = "ok" =>
               /\ lbl'.arg \in DOMAIN subscriptions'
               /\ lbl'.val = [status |-> "subscribed", symbol |-> lbl'.arg[1],
                              exchange |-> lbl'.arg[2], mode |-> lbl'.arg[3]]
        /\ lbl'.res = "raised" =>
               /\ lbl'.err # ""
               /\ subscriptions' = subscriptions
        /\ lbl'.res = "none" =>
               /\ lbl'.sent # <<>>
               /\ subscriptions' = subscriptions
        /\ (lbl'.res # "ok" /\ ws_client = 0) => lbl'.res = "raised"]_vars

(* C5 witness: a subscribe for a new key raised while other keys are
   subscribed, and the set does not hold the key *)
C5_Witness ==
    /\ lbl.op = "subscribe"
    /\ lbl.res = "raised"
    /\ lbl.arg \notin DOMAIN subscriptions
    /\ DOMAIN subscriptions # {}

(* C6: after Adapter.unsubscribe(symbol, exchange, mode) the key is absent from
   the subscription set, whether the call returned or raised. *)
C6_UnsubscribeAlwaysRemoves ==
    (lbl.op = "unsubscribe" /\ lbl.res \in {"ok", "raised"}) =>
        lbl.arg \notin DOMAIN subscriptions

(* C7: the subscription set is exactly the set of keys whose most recent
   successful call was a subscribe, each mapped to True. *)
C7_SetTracksRequests ==
    /\ DOMAIN subscriptions = requested
    /\ \A k \in DOMAIN subscriptions : subscriptions[k] = TRUE

(* C7 witness: an unsubscribe has returned and the same symbol and exchange
   under the other mode is still subscribed, alone *)
C7_Witness ==
    /\ lbl.op = "unsubscribe"
    /\ lbl.res = "ok"
    /\ lbl.arg[3] = "ltpc"
    /\ DOMAIN subscriptions = {<<lbl.arg[1], lbl.arg[2], "full">>}

(* C8 as claimed: in any adapter state an unsubscribe of a key that is not in
   the subscription set does not raise and leaves the set unchanged. *)
C8_UnsubscribeAbsentNeverRaises ==
    [][(lbl'.op = "unsubscribe" /\ lbl'.arg \notin DOMAIN subscriptions) =>
           /\ lbl'.res # "raised"
           /\ subscriptions' = subscriptions]_vars

(* C8 amended: an unsubscribe of a key that is not in the subscription set
   leaves the set unchanged; it raises only when the send fails, that is when
   the client has no open transport, and it then raises the send's error;
   otherwise it returns the acknowledgement. *)
C8_UnsubscribeAbsentIsNoOp ==
    [][(lbl'.op = "unsubscribe" /\ lbl'.arg \notin DOMAIN subscriptions) =>
           /\ subscriptions' = subscriptions
           /\ lbl'.res = "raised" =>
                  /\ NotOpen
                  /\ lbl'.err \in {"AttributeError", "WebSocketConnectionClosedException"}
           /\ lbl'.res = "ok" =>
                  lbl'.val = [status |-> "unsubscribed", symbol |-> lbl'.arg[1],
                              exchange |-> lbl'.arg[2], mode |-> lbl'.arg[3]]]_vars

(* C8 witness: an unsubscribe of a key that was not subscribed has returned
   while another key stays subscribed *)
C8_Witness ==
    /\ lbl.op = "unsubscribe"
    /\ lbl.res = "ok"
    /\ lbl.popped = None
    /\ DOMAIN subscriptions # {}
    /\ lbl.val.status = "unsubscribed"

(* C9: no lost update.  A subscribe made on an open transport does not raise,
   and the step in which a subscribe returns adds its key to the subscription
   set and keeps every key that was there, whatever another thread is in the
   middle of. *)
C9_NoLostUpdate ==
    [][/\ (lbl'.op = "subscribe" /\ lbl'.res = "ok") =>
           /\ pc[lbl'.who] = "sub_record"
           /\ DOMAIN subscriptions' = (DOMAIN subscriptions) \cup {lbl'.arg}
       /\ (lbl'.op = "subscribe" /\ lbl'.res = "raised") => NotOpen]_vars

(* C9 witness: two subscribes for distinct keys overlap: one thread has
   returned with its key recorded while the other has sent and not yet
   recorded *)
C9_Witness ==
    \E a, b \in Threads :
        /\ a # b
        /\ lbl.op = "subscribe" /\ lbl.res = "ok" /\ lbl.who = a
        /\ pc[b] = "sub_record"
        /\ key[b] # lbl.arg
        /\ lbl.arg \in DOMAIN subscriptions
        /\ key[b] \notin DOMAIN subscriptions

(* C10: without a credential Adapter.connect() raises at once, and as long as
   no credential is set there is no client, no transport, no worker, and
   running is false. *)
C10_NoCredentialNoHandshake ==
    access_token = None =>
        /\ lbl.op = "connect" => (lbl.res = "raised" /\ lbl.err = "Exception")
        /\ ws_client = 0
        /\ ncl = 0
        /\ ntr = 0
        /\ \A t \in Transports : wpc[t] = "none" /\ sock[t] = "none"
        /\ \A th \in Threads : pc[th] = "idle"
        /\ ~running

(* C10 witness: initialize() found no token for the user and connect() raised *)
C10_Witness ==
    /\ user_id = "u2"
    /\ access_token = None
    /\ lbl.op = "connect"
    /\ lbl.res = "raised"

(* The client c has been disconnected: flag clear, stop event set, transport
   closed if there is one *)
Disconnected(c) ==
    /\ ~connected[c]
    /\ stop_event[c]
    /\ ws[c] = 0 \/ sock[ws[c]] = "closed"

(* C11: disconnect() is idempotent and safe in every state.  No step of
   disconnect(), on the adapter or on its client, raises, with or without a
   client; when the client's disconnect() returns its connected flag is false,
   its stop event is set and its transport is closed; when the adapter's
   disconnect() returns running is false; and on a client that is already
   disconnected every step of disconnect() leaves the client and its
   transports as they were. *)
C11_DisconnectIdempotent ==
    [][lbl'.op \in {"disconnect", "ws_disconnect"} =>
        LET c == ws_client
        IN  /\ lbl'.res # "raised"
            /\ (lbl'.res = "ok" /\ lbl'.op = "disconnect") => ~running'
            /\ (lbl'.res = "ok" /\ lbl'.op = "ws_disconnect") =>
                   /\ c # 0
                   /\ ~connected'[c]
                   /\ stop_event'[c]
                   /\ ws'[c] = 0 \/ sock'[ws'[c]] = "closed"
            /\ (c # 0 /\ Disconnected(c)) =>
                   /\ <<ncl, ws, connected, stop_event>>' = <<ncl, ws, connected, stop_event>>
                   /\ <<ntr, owner, sock, wpc>>' = <<ntr, owner, sock, wpc>>
                   /\ ws_client' = ws_client]_vars

(* C11 witness: the adapter's disconnect() is called again after an earlier
   disconnect() returned: a client exists, running is false, the client is
   still disconnected after the call's first statements *)
C11_Witness ==
    /\ lbl.op = "disconnect"
    /\ lbl.res = "none"
    /\ ws_client # 0
    /\ ~running
    /\ Disconnected(ws_client)
    /\ pc[Owner] = "disc_flag"

(* C12: the wire message of an adapter call.  The step of Adapter.subscribe
   that sends writes exactly one text frame, to the current transport of the
   adapter's client: the request with the call's guid, method "sub", data.mode
   the mode given and data.instrumentKeys the one key broker-exchange|symbol
   ("NSE_EQ|RELIANCE" for RELIANCE on NSE, "BSE_EQ|RELIANCE" for RELIANCE on
   bse); the step of Adapter.unsubscribe that sends writes exactly one frame
   with method "unsub", the same key and no mode field.  A call returns only
   after its one sending step, and the returning step and a raising step write
   nothing: one message per successful call, never a second. *)
C12_WireMessage ==
    [][lbl'.op \in {"subscribe", "unsubscribe"} =>
        LET k == lbl'.arg
            th == lbl'.who
            ikey == IF k[2] = <<"N", "S", "E">>
                    THEN <<"N", "S", "E", "_", "E", "Q", "|">> \o k[1]
                    ELSE <<"B", "S", "E", "_", "E", "Q", "|">> \o k[1]
        IN  /\ lbl'.res = "none" =>
                /\ pc[th] = "idle"
                /\ pc'[th] = (IF lbl'.op = "subscribe" THEN "sub_record" ELSE "unsub_record")
                /\ Len(lbl'.sent) = 1
                /\ lbl'.sent[1].t = ws[ws_client]
                /\ lbl'.sent[1].data[1] = "json"
                /\ \E g \in Guids :
                       lbl'.sent[1].data[2] =
                           IF lbl'.op = "subscribe"
                           THEN [guid |-> g, method |-> "sub",
                                 data |-> [mode |-> k[3], instrumentKeys |-> <<ikey>>]]
                           ELSE [guid |-> g, method |-> "unsub",
                                 data |-> [instrumentKeys |-> <<ikey>>]]
            /\ lbl'.res = "ok" =>
                /\ pc[th] = (IF lbl'.op = "subscribe" THEN "sub_record" ELSE "unsub_record")
                /\ key[th] = k
                /\ pc'[th] = "idle"
                /\ lbl'.sent = <<>>
            /\ lbl'.res = "raised" => lbl'.sent = <<>>]_vars

(* C12 witness: the unsub message for RELIANCE on NSE has been written while
   the key is subscribed under ltpc, so its sub message was written before *)
C12_Witness ==
    /\ lbl.op = "unsubscribe"
    /\ lbl.res = "none"
    /\ lbl.arg = << <<"R", "E", "L", "I", "A", "N", "C", "E">>, <<"N", "S", "E">>, "ltpc" >>
    /\ lbl.arg \in DOMAIN subscriptions
    /\ Len(lbl.sent) = 1
    /\ lbl.sent[1].data[2].method = "unsub"
    /\ lbl.sent[1].data[2].data.instrumentKeys =
           << <<"N", "S", "E", "_", "E", "Q", "|", "R", "E", "L", "I", "A", "N", "C", "E">> >>

(* The generic exchange codes: the keys of OA_TO_UPSTOX *)
KnownOA == {it[1] : it \in OA_TO_UPSTOX}

(* C13: the exchange mapping round trip.  For every known generic code x,
   to_oa_exchange(to_upstox_exchange(x)) = x; the generic-to-broker table has
   nine keys and nine distinct values, and the inverse table has nine entries. *)
C13_RoundTrip ==
    /\ (lbl.op = "round_trip" /\ lbl.arg \in KnownOA) => lbl.val = lbl.arg
    /\ Cardinality(KnownOA) = 9
    /\ Cardinality(OA_TO_UPSTOX) = 9
    /\ Cardinality({it[2] : it \in OA_TO_UPSTOX}) = 9
    /\ Cardinality(UPSTOX_TO_OA) = 9
    /\ {<<"N", "S", "E">>, <<"B", "S", "E">>, <<"N", "F", "O">>, <<"B", "F", "O">>,
        <<"C", "D", "S">>, <<"B", "C", "D">>, <<"M", "C", "X">>,
        <<"N", "S", "E", "_", "I", "N", "D", "E", "X">>,
        <<"B", "S", "E", "_", "I", "N", "D", "E", "X">>} = KnownOA

(* C13 witness: CDS has gone to the broker's code and back *)
C13_Witness ==
    /\ lbl.op = "round_trip"
    /\ lbl.arg = <<"C", "D", "S">>
    /\ lbl.val = <<"C", "D", "S">>
    /\ to_upstox_exchange(lbl.arg) = <<"N", "S", "E", "_", "C", "U", "R", "R", "E", "N", "C", "Y">>

(* C14: the exchange mapping is total, case-insensitive and passes unknown
   codes through.  Every call of to_upstox_exchange and of to_oa_exchange
   returns; the result is the same for every input with the same upper-case
   form; it is the table's entry for the upper-cased code when the table has
   one, and the upper-cased code otherwise. *)
C14_TotalCaseInsensitivePassthrough ==
    /\ lbl.op = "to_upstox_exchange" =>
           /\ lbl.res = "ok"
           /\ \A c \in ExchangeInputs :
                  upper(c) = upper(lbl.arg) => to_upstox_exchange(c) = lbl.val
           /\ IF \E it \in OA_TO_UPSTOX : it[1] = upper(lbl.arg)
              THEN <<upper(lbl.arg), lbl.val>> \in OA_TO_UPSTOX
              ELSE lbl.val = upper(lbl.arg)
           /\ lbl.arg = <<"n", "s", "e">> => lbl.val = <<"N", "S", "E", "_", "E", "Q">>
           /\ lbl.arg = <<"N", "s", "e">> => lbl.val = <<"N", "S", "E", "_", "E", "Q">>
    /\ lbl.op = "to_oa_exchange" =>
           /\ lbl.res = "ok"
           /\ \A c \in ExchangeInputs :
                  upper(c) = upper(lbl.arg) => to_oa_exchange(c) = lbl.val
           /\ IF \E it \in UPSTOX_TO_OA : it[1] = upper(lbl.arg)
              THEN <<upper(lbl.arg), lbl.val>> \in UPSTOX_TO_OA
              ELSE lbl.val = upper(lbl.arg)
           /\ lbl.arg = <<"m", "C", "x", "_", "F", "o">> => lbl.val = <<"M", "C", "X">>
           /\ lbl.arg = <<"n", "s", "e">> => lbl.val = <<"N", "S", "E">>

(* C14 witness: an unknown code in lower case has come back upper-cased *)
C14_Witness ==
    /\ lbl.op = "to_upstox_exchange"
    /\ lbl.res = "ok"
    /\ lbl.arg = <<"x", "y", "z">>
    /\ lbl.val = <<"X", "Y", "Z">>

(* C15: the capability registry.  is_mode_supported(mode) is true exactly for
   ltpc, option_greeks, full and full_d30; get_max_subscriptions(mode) is 0
   for every other mode and the ceiling of the table, which is positive, for
   these four; so the ceiling is positive exactly for the supported modes. *)
C15_CapabilityRegistry ==
    LET supported == {"ltpc", "option_greeks", "full", "full_d30"}
    IN  /\ lbl.op = "is_mode_supported" =>
               /\ lbl.res = "ok"
               /\ lbl.val = (lbl.arg \in supported)
        /\ lbl.op = "get_max_subscriptions" =>
               /\ lbl.res = "ok"
               /\ lbl.arg \notin supported => lbl.val = 0
               /\ lbl.arg \in supported =>
                      /\ <<lbl.arg, lbl.val>> \in MAX_SUBSCRIPTIONS
                      /\ lbl.val > 0
               /\ (lbl.val > 0) = is_mode_supported(lbl.arg)
               /\ lbl.arg = "ltpc" => lbl.val = 5000
               /\ lbl.arg = "option_greeks" => lbl.val = 3000
               /\ lbl.arg = "full" => lbl.val = 2000
               /\ lbl.arg = "full_d30" => lbl.val = 50

(* C15 witness: the ceiling of a mode that is not supported (the supported
   name in another case) has been asked for and is 0 *)
C15_Witness ==
    /\ lbl.op = "get_max_subscriptions"
    /\ lbl.arg = "LTPC"
    /\ lbl.val = 0
    /\ ~is_mode_supported(lbl.arg)

(* disconnect() has been called on client c and no call of it is still running *)
DisconnectReturned(c) ==
    /\ stop_event[c]
    /\ \A th \in Threads : ~(pc[th] = "disc_flag" /\ cur[th] = c)

(* C16: after disconnect() the client stays disconnected.  In a session with
   one connect() per client: once disconnect() has returned on a client, its
   connected flag is false, whatever the worker's callbacks do afterwards. *)
C16_StaysDisconnected ==
    \A c \in Clients : DisconnectReturned(c) => ~connected[c]

(* connect() on client c was called as the state machine allows it: it is the
   client's first, or disconnect() was called before it *)
ConnectFromDisconnected(c) ==
    \/ Cardinality({t \in Transports : owner[t] = c}) = 1
    \/ stop_event[c]

(* C17: the result of connect() reflects the handshake.  A call of
   UpstoxWebSocket.connect() on a disconnected client (the client's first, or
   one after disconnect()) starts exactly one transport with one worker and
   none while it polls; it never raises; it checks the flag at most
   PollAttempts times and returns false only after the last check; it returns
   what the check saw; and when it returns true the client is open: the
   handshake of the transport it started has completed and that transport's
   _on_open has run. *)
C17_ConnectReflectsHandshake ==
    [][lbl'.op = "ws_connect" =>
        LET th == lbl'.who
        IN  /\ lbl'.res # "raised"
            /\ pc[th] # "connect_poll" =>
                   /\ ntr' = ntr + 1
                   /\ ws'[ws_client] = ntr'
                   /\ wpc' = [wpc EXCEPT ![ntr'] = "handshake"]
                   /\ poll'[th] = 0
            /\ pc[th] = "connect_poll" =>
                   /\ <<ntr, owner, sock, wpc>>' = <<ntr, owner, sock, wpc>>
                   /\ ws' = ws
                   /\ poll[th] < PollAttempts
                   /\ lbl'.res = "none" => (~connected[cur[th]] /\ poll'[th] = poll[th] + 1)
                   /\ lbl'.res = "ok" =>
                          /\ lbl'.val.result = connected[cur[th]]
                          /\ ~lbl'.val.result => poll[th] = PollAttempts - 1
                          /\ (lbl'.val.result /\ ConnectFromDisconnected(cur[th])) =>
                                 wpc[ws[cur[th]]] \notin {"handshake", "call_open"}]_vars

(* C18: one callback per frame, in transport order.  The step that handles a
   frame makes exactly one call of an owner callback: on_message with the
   decoded record for a binary frame that decodes, on_message with the payload
   as it came for a text frame, on_error for a binary frame that does not
   decode; and on_message is called in no other step, so each frame's callback
   is made when the frame is delivered, before the next frame, never held back
   and never batched. *)
C18_OneCallbackPerFrame ==
    [][/\ lbl'.op = "on_message" =>
            LET f == lbl'.arg
            IN  /\ Len(lbl'.cb) = 1
                /\ ~f.binary => lbl'.cb[1] = [name |-> "on_message", arg |-> f.data]
                /\ f = [binary |-> FALSE, data |-> "ack"] =>
                       lbl'.cb[1] = [name |-> "on_message", arg |-> "ack"]
                /\ f = [binary |-> TRUE, data |-> <<10, 1, 7>>] =>
                       lbl'.cb[1] = [name |-> "on_message", arg |-> [feeds |-> <<7>>]]
                /\ f = [binary |-> TRUE, data |-> <<10, 2, 7>>] =>
                       lbl'.cb[1].name = "on_error"
                /\ f \in Frames
       /\ \A i \in 1..Len(lbl'.cb) :
              lbl'.cb[i].name = "on_message" => lbl'.op = "on_message"]_vars

(* C18 witness: a text frame has been handed to the owner as it came, on a
   connected client *)
C18_Witness ==
    /\ lbl.op = "on_message"
    /\ lbl.arg = [binary |-> FALSE, data |-> "ack"]
    /\ lbl.cb = <<[name |-> "on_message", arg |-> "ack"]>>
    /\ connected[owner[lbl.who]]

(* C19: the adapter's running flag follows the owner's calls only.  running
   changes only in the step in which Adapter.connect() or Adapter.disconnect()
   returns; a connect() that returns leaves it true whatever the client's
   connect() returned, a connect() that raises leaves it as it was, a
   disconnect() that returns leaves it false; no callback of the transport
   (handshake, open, message, error, close) and no other call changes it; and
   whenever running is true a credential is set and a client exists. *)
C19_RunningFollowsOwner ==
    /\ [](running => (access_token # None /\ ws_client # 0))
    /\ [][/\ running' # running => (lbl'.op \in {"connect", "disconnect"} /\ lbl'.res = "ok")
          /\ (lbl'.op = "connect" /\ lbl'.res = "ok") =>
                 (running' /\ lbl'.arg \in BOOLEAN /\ pc[lbl'.who] = "connect_ret")
          /\ (lbl'.op = "connect" /\ lbl'.res # "ok") => running' = running
          /\ (lbl'.op = "disconnect" /\ lbl'.res = "ok") => ~running'
          /\ lbl'.op \in {"handshake", "on_open", "on_message", "on_error", "on_close",
                          "ws_connect", "ws_disconnect", "subscribe", "unsubscribe",
                          "initialize"} => running' = running]_vars

(* C19 witness: connect() has returned after the client's connect() timed out:
   running is true and the client is not connected *)
C19_Witness ==
    /\ lbl.op = "connect"
    /\ lbl.res = "ok"
    /\ lbl.arg = FALSE
    /\ running
    /\ ~connected[ws_client]
    /\ sock[ws[ws_client]] # "open"

====
